---- MODULE Spec2Model ----
(***************************************************************************)
(* The gsutil "test" command (gslib/commands/test.py): TestCommand's       *)
(* RunCommand and the progress-reporting result class, as a state machine. *)
(* Strings are sequences of one-character strings, so that split, lstrip,  *)
(* slicing, padding, '%d' formatting and sorting are computed as Python    *)
(* computes them.                                                          *)
(***************************************************************************)
EXTENDS Integers, Sequences, FiniteSets, TLC

(***************************************************************************)
(* Bounds of the model.                                                    *)
(***************************************************************************)
\* Longest list of positional arguments (self.args).
MaxArgs == 2
\* Most interrupt signals (ctrl-c) delivered to the process.
MaxInterrupts == 1

(***************************************************************************)
(* Strings.                                                                *)
(***************************************************************************)
\* The characters that occur in names, in ascending code-point order
\* ('.' < digits < upper case < '_' < lower case).
CharOrder ==
  << ".", "0", "1", "2", "3", "4", "5", "6", "7", "8", "9",
     "A", "B", "C", "D", "E", "F", "G", "H", "I", "J", "K", "L", "M",
     "N", "O", "P", "Q", "R", "S", "T", "U", "V", "W", "X", "Y", "Z",
     "_",
     "a", "b", "c", "d", "e", "f", "g", "h", "i", "j", "k", "l", "m",
     "n", "o", "p", "q", "r", "s", "t", "u", "v", "w", "x", "y", "z" >>

\* ord(c), up to an order-preserving renumbering.
Ord(c) == CHOOSE i \in 1..Len(CharOrder) : CharOrder[i] = c

\* Python's a < b on str: lexicographic by code point, a proper prefix first.
RECURSIVE StrLess(_, _)
StrLess(a, b) ==
  IF b = <<>> THEN FALSE
  ELSE IF a = <<>> THEN TRUE
  ELSE IF Head(a) = Head(b) THEN StrLess(Tail(a), Tail(b))
  ELSE Ord(Head(a)) < Ord(Head(b))

\* Insert x into the ascending list s, after the elements equal to it.
RECURSIVE Insert(_, _)
Insert(x, s) ==
  IF s = <<>> THEN <<x>>
  ELSE IF StrLess(x, Head(s)) THEN <<x>> \o s
  ELSE <<Head(s)>> \o Insert(x, Tail(s))

\* A faulty variant of sorted: the list is left in the order it came in.
AsGiven(s) == s

\* Python's sorted(list of str): ascending, duplicates kept.
RECURSIVE sorted(_)
sorted(s) ==
  IF s = <<>> THEN <<>> ELSE Insert(s[Len(s)], sorted(SubSeq(s, 1, Len(s) - 1)))

\* s.split('.'): the segments between the dots (always at least one).
RECURSIVE split(_)
split(s) ==
  IF \A i \in 1..Len(s) : s[i] # "." THEN <<s>>
  ELSE LET i == CHOOSE k \in 1..Len(s) :
                  s[k] = "." /\ \A j \in 1..(k - 1) : s[j] # "."
       IN  <<SubSeq(s, 1, i - 1)>> \o split(SubSeq(s, i + 1, Len(s)))

\* sep.join(parts).
RECURSIVE join(_, _)
join(sep, parts) ==
  IF parts = <<>> THEN <<>>
  ELSE IF Len(parts) = 1 THEN parts[1]
  ELSE parts[1] \o sep \o join(sep, Tail(parts))

\* s.lstrip(chars): drop leading characters while they belong to chars.
RECURSIVE lstrip(_, _)
lstrip(s, chars) ==
  IF s # <<>> /\ Head(s) \in chars THEN lstrip(Tail(s), chars) ELSE s

\* The set of the elements of a sequence.
Range(s) == { s[i] : i \in 1..Len(s) }

\* '%d' % n for n >= 0.
DigitChars == << "0", "1", "2", "3", "4", "5", "6", "7", "8", "9" >>
RECURSIVE FormatInt(_)
FormatInt(n) ==
  IF n < 10 THEN << DigitChars[n + 1] >>
  ELSE FormatInt(n \div 10) \o << DigitChars[(n % 10) + 1] >>

(***************************************************************************)
(* String literals of the command.                                         *)
(***************************************************************************)
\* 'gslib.tests.test_'
TestPrefix ==
  << "g", "s", "l", "i", "b", ".", "t", "e", "s", "t", "s", ".",
     "t", "e", "s", "t", "_" >>

\* 'Found %d test names:' % n
FoundHeader(n) ==
  << "F", "o", "u", "n", "d", " " >> \o FormatInt(n) \o
  << " ", "t", "e", "s", "t", " ", "n", "a", "m", "e", "s", ":" >>

NL == << "\n" >>

\* A faulty variant of ListingText: the names are printed as they come.
ListingTextUnsorted(names) ==
  FoundHeader(Len(names)) \o NL \o
  << " ", " " >> \o join(<< "\n", " ", " " >>, names) \o NL

\* The two print statements of a listing: the header line, then
\* print ' ', '\n  '.join(sorted(names)).
ListingText(names) ==
  FoundHeader(Len(names)) \o NL \o
  << " ", " " >> \o join(<< "\n", " ", " " >>, sorted(names)) \o NL

(***************************************************************************)
(* The test modules under gslib/tests: test_<name>.py defines TestCase     *)
(* classes, each with test methods.                                        *)
(***************************************************************************)
cp ==
  << "c", "p" >>
ls ==
  << "l", "s" >>
mv ==
  << "m", "v" >>
TestCp ==
  << "T", "e", "s", "t", "C", "p" >>
TestLs ==
  << "T", "e", "s", "t", "L", "s" >>
TestMv ==
  << "T", "e", "s", "t", "M", "v" >>
test_streaming ==
  << "t", "e", "s", "t", "_", "s", "t", "r", "e", "a", "m", "i", "n",
     "g" >>
test_moving ==
  << "t", "e", "s", "t", "_", "m", "o", "v", "i", "n", "g" >>
test_noclobber ==
  << "t", "e", "s", "t", "_", "n", "o", "c", "l", "o", "b", "b", "e",
     "r" >>
test_listing ==
  << "t", "e", "s", "t", "_", "l", "i", "s", "t", "i", "n", "g" >>
\* A method name long enough for its progress line to be truncated.
test_long ==
  << "t", "e", "s", "t", "_", "c", "o", "p", "y", "_", "o", "b", "j",
     "e", "c", "t", "_", "t", "o", "_", "b", "u", "c", "k", "e", "t",
     "_", "w", "i", "t", "h", "_", "v", "e", "r", "s", "i", "o", "n",
     "_", "s", "p", "e", "c", "i", "f", "i", "c", "_", "u", "r", "i" >>
old ==
  << "o", "l", "d" >>
gslib ==
  << "g", "s", "l", "i", "b" >>
tests ==
  << "t", "e", "s", "t", "s" >>

\* 'mv.old': the name of a stray file test_mv.old.py, which matches the
\* pattern of a test file and cannot be imported as a module.
mv_old == mv \o << "." >> \o old

\* The names a test file can have in this model: test_cp.py, test_ls.py
\* (both named by the help text), test_mv.py and test_mv.old.py.
Modules == { cp, ls, mv, mv_old }

\* The TestCase classes a module defines, each with its test methods, in
\* the order the loader yields them (classes and methods by name).
ClassesOf(m) ==
  IF m = cp THEN << [class |-> TestCp,
                     methods |-> << test_long, test_streaming >>] >>
  ELSE IF m = ls THEN << [class |-> TestLs,
                          methods |-> << test_listing, test_noclobber >>] >>
  ELSE IF m = mv THEN << [class |-> TestMv, methods |-> << test_moving >>] >>
  ELSE << >>

\* The number of test methods a module defines.
RECURSIVE SumMethods(_)
SumMethods(cs) ==
  IF cs = <<>> THEN 0 ELSE Len(Head(cs).methods) + SumMethods(Tail(cs))
TestsDefinedIn(m) == SumMethods(ClassesOf(m))

(***************************************************************************)
(* Suites: a node is a leaf (one test, with its id) or a composite (an     *)
(* ordered sequence of nodes).                                             *)
(***************************************************************************)
Leaf(id) == [leaf |-> TRUE, id |-> id, tests |-> <<>>]
TestSuite(ts) == [leaf |-> FALSE, id |-> <<>>, tests |-> ts]

\* test.id(): '<module __name__>.<class>.<method>'.
TestId(m, c, f) == TestPrefix \o m \o <<".">> \o c \o <<".">> \o f

\* loader.loadTestsFromTestCase: one leaf per test method.
ClassSuite(m, c) ==
  TestSuite([i \in 1..Len(c.methods) |-> Leaf(TestId(m, c.class, c.methods[i]))])

\* loader.loadTestsFromModule: one class suite per TestCase class.
ModuleSuite(m) ==
  LET cs == ClassesOf(m)
  IN  TestSuite([i \in 1..Len(cs) |-> ClassSuite(m, cs[i])])

\* A faulty variant of countTestCases: the children of the node are counted,
\* not the leaves under it.
CountChildren(node) == Len(node.tests)

\* suite.countTestCases(): the number of leaves under a node.
RECURSIVE countTestCases(_)
RECURSIVE CountAll(_)
countTestCases(node) == IF node.leaf THEN 1 ELSE CountAll(node.tests)
CountAll(ts) ==
  IF ts = <<>> THEN 0
  ELSE IF Len(ts) = 1 THEN countTestCases(ts[1])
  ELSE LET half == Len(ts) \div 2
       IN  CountAll(SubSeq(ts, 1, half)) + CountAll(SubSeq(ts, half + 1, Len(ts)))

\* The leaves under a node in the order suite.run() reaches them.
RECURSIVE LeavesOf(_)
RECURSIVE LeavesOfAll(_)
LeavesOf(node) == IF node.leaf THEN << node.id >> ELSE LeavesOfAll(node.tests)
LeavesOfAll(ts) ==
  IF ts = <<>> THEN <<>>
  ELSE IF Len(ts) = 1 THEN LeavesOf(ts[1])
  ELSE LET half == Len(ts) \div 2
       IN  LeavesOfAll(SubSeq(ts, 1, half)) \o
           LeavesOfAll(SubSeq(ts, half + 1, Len(ts)))

(***************************************************************************)
(* The loader. Its results: a suite, or the error the engine raises.       *)
(***************************************************************************)
NoSuite == [leaf |-> FALSE, id |-> << "?" >>, tests |-> <<>>]
Loaded(s) == [ok |-> TRUE, suite |-> s, etype |-> "", ename |-> <<>>]
LoadError(t, n) == [ok |-> FALSE, suite |-> NoSuite, etype |-> t, ename |-> n]

\* loader.loadTestsFromName(name), when the files test_<m>.py for m in
\* present exist and the modules in broken fail to import.
loadTestsFromName(name, present, broken) ==
  LET parts == split(name)
      inPkg == Len(parts) >= 2 /\ parts[1] = gslib /\ parts[2] = tests
      mods  == { m \in present \ broken :
                   Len(parts) >= 3 /\ parts[3] = << "t", "e", "s", "t", "_" >> \o m }
  IN  IF ~inPkg THEN LoadError("ImportError", name)
      ELSE IF mods = {} THEN LoadError("AttributeError", name)
      ELSE LET m    == CHOOSE x \in mods : TRUE
               cs   == ClassesOf(m)
               rest == SubSeq(parts, 4, Len(parts))
               ks   == IF rest = <<>> THEN {}
                       ELSE { i \in 1..Len(cs) : cs[i].class = rest[1] }
           IN  IF rest = <<>> THEN Loaded(ModuleSuite(m))
               ELSE IF ks = {} \/ Len(rest) > 2
                    THEN LoadError("AttributeError", name)
               ELSE LET c == cs[CHOOSE i \in ks : TRUE]
                    IN  IF Len(rest) = 1 THEN Loaded(ClassSuite(m, c))
                        ELSE IF rest[2] \in Range(c.methods)
                        THEN Loaded(TestSuite(<< Leaf(TestId(m, c.class, rest[2])) >>))
                        ELSE LoadError("AttributeError", name)

\* loader.loadTestsFromNames(names): one sub-suite per name, in order; the
\* first name that fails to load raises.
RECURSIVE LoadAll(_, _, _)
LoadAll(names, present, broken) ==
  IF names = <<>> THEN Loaded(TestSuite(<<>>))
  ELSE LET first == loadTestsFromName(Head(names), present, broken)
           others == LoadAll(Tail(names), present, broken)
       IN  IF ~first.ok THEN first
           ELSE IF ~others.ok THEN others
           ELSE Loaded(TestSuite(<< first.suite >> \o others.suite.tests))
loadTestsFromNames(names, present, broken) == LoadAll(names, present, broken)

(***************************************************************************)
(* The progress line of CustomTestResult.startTest.                        *)
(***************************************************************************)
\* s[:n]
Truncate(s, n) == IF Len(s) <= n THEN s ELSE SubSeq(s, 1, n)

\* s.ljust(n): pad with spaces on the right up to n characters.
ljust(s, n) == IF Len(s) >= n THEN s ELSE s \o [i \in 1..(n - Len(s)) |-> " "]

\* A faulty variant of LastTwo: only the last component is kept.
LastOne(parts) ==
  IF Len(parts) <= 1 THEN parts ELSE SubSeq(parts, Len(parts), Len(parts))

\* parts[-2:]
LastTwo(parts) ==
  IF Len(parts) <= 2 THEN parts ELSE SubSeq(parts, Len(parts) - 1, Len(parts))

\* The width the message is cut and padded to.
LineWidth == 73

\* The text startTest writes for a test: '%s - ' % message.
ProgressWrite(testId, run, total, nErrors, nFailures, nSkipped) ==
  LET id == join(<< "." >>, LastTwo(split(testId)))
      message ==
        << "\r" >> \o FormatInt(run) \o << "/" >> \o FormatInt(total) \o
        << " ", "f", "i", "n", "i", "s", "h", "e", "d", " ", "-", " ",
           "E", "[" >> \o FormatInt(nErrors) \o
        << "]", " ", "F", "[" >> \o FormatInt(nFailures) \o
        << "]", " ", "s", "[" >> \o FormatInt(nSkipped) \o
        << "]", " ", "-", " " >> \o id
  IN  ljust(Truncate(message, LineWidth), LineWidth) \o << " ", "-", " " >>

(***************************************************************************)
(* Inputs.                                                                 *)
(***************************************************************************)
\* All sequences over S of length at most n.
RECURSIVE SeqsUpTo(_, _)
SeqsUpTo(S, n) ==
  IF n = 0 THEN { <<>> }
  ELSE LET shorter == SeqsUpTo(S, n - 1)
       IN  shorter \cup { Append(s, x) : s \in shorter, x \in S }

\* The option lists getopt can hand over: each of -u, -f, -l at most once.
SubOptChoices ==
  { <<>>, << "-u" >>, << "-f" >>, << "-l" >>, << "-u", "-f" >>,
    << "-u", "-l" >>, << "-f", "-l" >>, << "-u", "-f", "-l" >> }

\* The positional arguments a user passes: a test name, a test function of
\* a module, a module whose name is made of characters of the prefix, a
\* dotted name (a catalog entry if test_mv.old.py exists, and otherwise
\* an attribute of test_mv that does not exist), and a fully qualified
\* module.
ArgChoices ==
  { cp,
    cp \o << "." >> \o TestCp \o << "." >> \o test_streaming,
    ls,
    mv_old,
    TestPrefix \o mv }
ArgLists == SeqsUpTo(ArgChoices, MaxArgs)

\* What GetTestNames() can return: the names of the test files present, in
\* directory order (any order, no name twice).
CatalogListings ==
  { s \in SeqsUpTo(Modules, Cardinality(Modules)) :
      \A i, j \in 1..Len(s) : i # j => s[i] # s[j] }

\* The modules that fail to import when loaded: none, or one of them.
BrokenChoices == { {} } \cup { { m } : m \in Modules }

\* logging.INFO, and the thresholds the root logger can have: INFO and
\* WARNING.
INFO == 20
LogLevels == { INFO, INFO + 10 }

(***************************************************************************)
(* State.                                                                  *)
(***************************************************************************)
VARIABLES
  pc,                    \* the statement the command is at
  unittest,              \* the module-level name unittest: "module", "None"
                         \* or, before it is bound, "unbound"
  sub_opts,              \* self.sub_opts
  args,                  \* self.args
  RUN_INTEGRATION_TESTS, \* tests.util.RUN_INTEGRATION_TESTS
  failfast,
  list_tests,
  catalog,               \* the names GetTestNames() returned, as a set
  test_names,
  commands_to_test,
  handlerInstalled,      \* unittest.installHandler() was called
  handlerCalled,         \* the installed handler has seen an interrupt
  interrupts,            \* interrupt signals delivered so far
  loaderCalled,          \* loader.loadTestsFromNames was called
  suite,                 \* the local suite; NoSuite while it is unbound
  logLevel,              \* logging.getLogger().getEffectiveLevel(), once read
  verbosity,
  loggingDisabled,       \* logging.disable(logging.ERROR) was called
  total_tests,
  runnerFailfast,        \* the failfast argument the runner was built with
  position,              \* leaves the running suite has gone past
  inTest,                \* a test has started and has no outcome yet
  testsRun,              \* result.testsRun
  errors,                \* len(result.errors)
  failures,              \* len(result.failures)
  skipped,               \* len(result.skipped)
  shouldStop,            \* result.shouldStop
  stream,                \* the last text startTest wrote to the stream
  stdout,                \* everything printed
  exception,             \* the exception that ended the command, if any
  ret                    \* the value RunCommand returned; NoReturn before

vars ==
  << pc, unittest, sub_opts, args, RUN_INTEGRATION_TESTS, failfast,
     list_tests, catalog, test_names, commands_to_test, handlerInstalled,
     handlerCalled, interrupts, loaderCalled, suite, logLevel, verbosity,
     loggingDisabled, total_tests, runnerFailfast, position, inTest,
     testsRun, errors, failures, skipped, shouldStop, stream, stdout,
     exception, ret >>

\* Groups of variables for UNCHANGED.
inputVars == << sub_opts, args >>
flagVars == << RUN_INTEGRATION_TESTS, failfast, list_tests >>
nameVars == << catalog, test_names, commands_to_test >>
signalVars == << handlerInstalled, handlerCalled, interrupts >>
loadVars == << loaderCalled, suite >>
logVars == << logLevel, verbosity, loggingDisabled >>
resultVars ==
  << total_tests, runnerFailfast, position, inTest, testsRun, errors,
     failures, skipped, shouldStop, stream >>
outVars == << stdout, exception, ret >>

NoReturn == -1
NoLevel == -1
NoException == [type |-> "", text |-> "", etype |-> "", ename |-> <<>>]

\* raise CommandException(text % e), with e the engine's error if any.
CommandException(text, etype, ename) ==
  [type |-> "CommandException", text |-> text, etype |-> etype, ename |-> ename]

\* Any other exception that leaves RunCommand.
Raised(type) == [type |-> type, text |-> "", etype |-> "", ename |-> <<>>]

Init ==
  /\ pc = "import"
  /\ unittest = "unbound"
  /\ sub_opts \in SubOptChoices
  /\ args \in ArgLists
  /\ RUN_INTEGRATION_TESTS = TRUE
  /\ failfast = FALSE
  /\ list_tests = FALSE
  /\ catalog = {}
  /\ test_names = <<>>
  /\ commands_to_test = <<>>
  /\ handlerInstalled = FALSE
  /\ handlerCalled = FALSE
  /\ interrupts = 0
  /\ loaderCalled = FALSE
  /\ suite = NoSuite
  /\ logLevel = NoLevel
  /\ verbosity = 0
  /\ loggingDisabled = FALSE
  /\ total_tests = 0
  /\ runnerFailfast = FALSE
  /\ position = 0
  /\ inTest = FALSE
  /\ testsRun = 0
  /\ errors = 0
  /\ failures = 0
  /\ skipped = 0
  /\ shouldStop = FALSE
  /\ stream = <<>>
  /\ stdout = <<>>
  /\ exception = NoException
  /\ ret = NoReturn

(***************************************************************************)
(* The module's import guard (lines 45-53).                                *)
(***************************************************************************)
\* from gslib.tests.util import GetTestNames, unittest
ImportGuard ==
  /\ pc = "import"
  /\ \/ /\ unittest' = "module"
        /\ pc' = "RunCommand"
        /\ UNCHANGED exception
     \/ \* ImportError naming unittest2: the names are set to None
        /\ unittest' = "None"
        /\ pc' = "RunCommand"
        /\ UNCHANGED exception
     \/ \* any other ImportError is raised again
        /\ UNCHANGED unittest
        /\ pc' = "raised"
        /\ exception' = Raised("ImportError")
  /\ UNCHANGED << inputVars, flagVars, nameVars, signalVars, loadVars,
                  logVars, resultVars, stdout, ret >>

(***************************************************************************)
(* RunCommand, statement by statement.                                     *)
(***************************************************************************)
DependencyText ==
  "On Python 2.6, the unittest2 module is required to run the gsutil tests."

\* A faulty variant of Missing: the check is left out.
MissingNever(u) == FALSE

\* not unittest
Missing(u) == u = "None"

\* if not unittest: raise CommandException(...)
CheckUnittest ==
  /\ pc = "RunCommand"
  /\ IF Missing(unittest)
     THEN /\ pc' = "raised"
          /\ exception' = CommandException(DependencyText, "", <<>>)
     ELSE /\ pc' = "sub_opts"
          /\ UNCHANGED exception
  /\ UNCHANGED << unittest, inputVars, flagVars, nameVars, signalVars,
                  loadVars, logVars, resultVars, stdout, ret >>

\* The value a flag variable has after the loop over sub_opts.
FlagSet(opts, o) == o \in Range(opts)

\* failfast = False; list_tests = False; for o, _ in self.sub_opts: ...
ParseSubOpts ==
  /\ pc = "sub_opts"
  /\ RUN_INTEGRATION_TESTS' =
       IF FlagSet(sub_opts, "-u") THEN FALSE ELSE RUN_INTEGRATION_TESTS
  /\ failfast' = FlagSet(sub_opts, "-f")
  /\ list_tests' = FlagSet(sub_opts, "-l")
  /\ pc' = "GetTestNames"
  /\ UNCHANGED << unittest, inputVars, nameVars, signalVars, loadVars,
                  logVars, resultVars, outVars >>

\* test_names = sorted(GetTestNames())
GetNames ==
  /\ pc = "GetTestNames"
  /\ \E listing \in CatalogListings :
       /\ catalog' = Range(listing)
       /\ test_names' = sorted(listing)
  /\ pc' = "list_catalog"
  /\ UNCHANGED << unittest, inputVars, flagVars, commands_to_test,
                  signalVars, loadVars, logVars, resultVars, outVars >>

\* A faulty variant of ListsCatalog: the test on the arguments is inverted.
ListsCatalogWithArgs(list, as) == list /\ as # <<>>

\* if list_tests and not self.args
ListsCatalog(list, as) == list /\ as = <<>>

\* print 'Found %d test names:' ...; print ' ', ...; return 0
ListCatalog ==
  /\ pc = "list_catalog"
  /\ ListsCatalog(list_tests, args)
  /\ stdout' = stdout \o ListingText(test_names)
  /\ ret' = 0
  /\ pc' = "returned"
  /\ UNCHANGED << unittest, inputVars, flagVars, nameVars, signalVars,
                  loadVars, logVars, resultVars, exception >>

\* A faulty variant of ResolveName: the prefix is put before the head segment
\* and the rest of the argument is lost.
ResolveNameHeadOnly(name, names) ==
  IF name \in Range(names) \/ split(name)[1] \in Range(names)
  THEN TestPrefix \o split(name)[1]
  ELSE name

\* A faulty variant of ResolveName: every argument gets the prefix.
ResolveNameAlways(name, names) == TestPrefix \o name

\* The identifier an argument stands for (lines 213-216).
ResolveName(name, names) ==
  IF name \in Range(names) \/ split(name)[1] \in Range(names)
  THEN TestPrefix \o name
  ELSE name

\* commands_to_test, from the arguments or from the whole catalog.
ResolveAll(as, names) ==
  IF as # <<>>
  THEN [i \in 1..Len(as) |-> ResolveName(as[i], names)]
  ELSE [i \in 1..Len(names) |-> TestPrefix \o names[i]]

Resolve ==
  /\ pc = "list_catalog"
  /\ ~ListsCatalog(list_tests, args)
  /\ commands_to_test' = ResolveAll(args, test_names)
  /\ pc' = "installHandler"
  /\ UNCHANGED << unittest, inputVars, flagVars, catalog, test_names,
                  signalVars, loadVars, logVars, resultVars, outVars >>

\* unittest.installHandler()
InstallHandler ==
  /\ pc = "installHandler"
  /\ handlerInstalled' = TRUE
  /\ pc' = "load"
  /\ UNCHANGED << unittest, inputVars, flagVars, nameVars, handlerCalled,
                  interrupts, loadVars, logVars, resultVars, outVars >>

InvalidText == "Invalid test argument name: "

\* A faulty variant of AfterLoad: the command goes on after a failed load.
AfterLoadContinue(res) == "loaded"

\* Where the command is after the try statement around the load: past it,
\* or out with the CommandException raised in the except clause.
AfterLoad(res) == IF res.ok THEN "loaded" ELSE "raised"

\* loader = unittest.TestLoader(); if commands_to_test: try: suite = ...
LoadTests ==
  /\ pc = "load"
  /\ IF commands_to_test # <<>>
     THEN \E broken \in BrokenChoices :
            LET res == loadTestsFromNames(commands_to_test, catalog, broken)
            IN  /\ loaderCalled' = TRUE
                /\ pc' = AfterLoad(res)
                /\ IF res.ok
                   THEN /\ suite' = res.suite
                        /\ UNCHANGED exception
                   ELSE /\ exception' =
                             CommandException(InvalidText, res.etype, res.ename)
                        /\ UNCHANGED suite
     ELSE /\ pc' = "loaded"
          /\ UNCHANGED << loaderCalled, suite, exception >>
  /\ UNCHANGED << unittest, inputVars, flagVars, nameVars, signalVars,
                  logVars, resultVars, stdout, ret >>

\* test.id().lstrip('gslib.tests.test_'): the name a leaf is listed under.
ListedName(id) == lstrip(id, Range(TestPrefix))

\* for test in suite: push the composites, record the leaves.
RECURSIVE VisitChildren(_, _, _)
VisitChildren(children, suites, names) ==
  IF children = <<>> THEN [suites |-> suites, names |-> names]
  ELSE LET test == Head(children)
       IN  IF ~test.leaf
           THEN VisitChildren(Tail(children), Append(suites, test), names)
           ELSE VisitChildren(Tail(children), suites,
                              Append(names, ListedName(test.id)))

\* while suites: suite = suites.pop(); ...  Yields the names recorded and
\* the suite popped last.
RECURSIVE FlattenLoop(_, _, _)
FlattenLoop(suites, names, last) ==
  IF suites = <<>> THEN [names |-> names, suite |-> last]
  ELSE LET top == suites[Len(suites)]
           v == VisitChildren(top.tests, SubSeq(suites, 1, Len(suites) - 1), names)
       IN  FlattenLoop(v.suites, v.names, top)

\* A faulty variant of ListMode: the listing branch is never taken.
ListModeNever(list) == FALSE

\* if list_tests (line 231)
ListMode(list) == list

\* if list_tests: ... print ...; return 0
ListSuite ==
  /\ pc = "loaded"
  /\ ListMode(list_tests)
  /\ IF suite = NoSuite
     THEN /\ exception' = Raised("UnboundLocalError")
          /\ pc' = "raised"
          /\ UNCHANGED << test_names, suite, stdout, ret >>
     ELSE LET f == FlattenLoop(<< suite >>, <<>>, suite)
          IN  /\ test_names' = f.names
              /\ suite' = f.suite
              /\ stdout' = stdout \o ListingText(f.names)
              /\ ret' = 0
              /\ pc' = "returned"
              /\ UNCHANGED exception
  /\ UNCHANGED << unittest, inputVars, flagVars, catalog, commands_to_test,
                  signalVars, loaderCalled, logVars, resultVars >>

\* The verbosity for an effective log level (lines 245-248).
VerbosityFor(level) == IF level <= INFO THEN 1 ELSE 2

\* if logging.getLogger().getEffectiveLevel() <= logging.INFO: ...
SetVerbosity ==
  /\ pc = "loaded"
  /\ ~ListMode(list_tests)
  /\ \E level \in LogLevels :
       /\ logLevel' = level
       /\ verbosity' = VerbosityFor(level)
       /\ loggingDisabled' = (VerbosityFor(level) = 2)
  /\ pc' = "count"
  /\ UNCHANGED << unittest, inputVars, flagVars, nameVars, signalVars,
                  loadVars, resultVars, outVars >>

\* total_tests = suite.countTestCases(); the result class and the runner
\* are built.
CountTests ==
  /\ pc = "count"
  /\ IF suite = NoSuite
     THEN /\ exception' = Raised("UnboundLocalError")
          /\ pc' = "raised"
          /\ UNCHANGED << total_tests, runnerFailfast >>
     ELSE /\ total_tests' = countTestCases(suite)
          /\ runnerFailfast' = failfast
          /\ pc' = "run"
          /\ UNCHANGED exception
  /\ UNCHANGED << unittest, inputVars, flagVars, nameVars, signalVars,
                  loadVars, logVars, position, inTest, testsRun, errors,
                  failures, skipped, shouldStop, stream, stdout, ret >>

(***************************************************************************)
(* runner.run(suite): the result is created and registered with the       *)
(* interrupt handler, then the leaves run one after the other.            *)
(***************************************************************************)
StartRun ==
  /\ pc = "run"
  /\ pc' = "running"
  /\ position' = 0
  /\ testsRun' = 0
  /\ errors' = 0
  /\ failures' = 0
  /\ skipped' = 0
  /\ shouldStop' = FALSE
  /\ inTest' = FALSE
  /\ UNCHANGED << unittest, inputVars, flagVars, nameVars, signalVars,
                  loadVars, logVars, total_tests, runnerFailfast, stream,
                  outVars >>

\* result.dots: the runner sets it for verbosity 1.
Dots(v) == v = 1

\* What startTest writes for the test it is given, if anything.
StartTestWrite(dots, testId, run, total, nErrors, nFailures, nSkipped, previous) ==
  IF dots
  THEN ProgressWrite(testId, run, total, nErrors, nFailures, nSkipped)
  ELSE previous

\* The suite hands its next leaf to the result: CustomTestResult.startTest.
StartTest ==
  /\ pc = "running"
  /\ ~inTest
  /\ ~shouldStop
  /\ position < Len(LeavesOf(suite))
  /\ position' = position + 1
  /\ testsRun' = testsRun + 1
  /\ inTest' = TRUE
  /\ stream' = StartTestWrite(Dots(verbosity), LeavesOf(suite)[position + 1],
                              testsRun + 1, total_tests, errors, failures,
                              skipped, stream)
  /\ UNCHANGED << pc, unittest, inputVars, flagVars, nameVars, signalVars,
                  loadVars, logVars, total_tests, runnerFailfast, errors,
                  failures, skipped, shouldStop, outVars >>

\* A faulty variant of StopOnFailure: every failure or error stops the run.
StopOnFailureAlways(ff, stop) == TRUE

\* A faulty variant of StopOnFailure: failfast is not honoured.
StopOnFailureNever(ff, stop) == stop

\* result.shouldStop after a failure or an error was added.
StopOnFailure(ff, stop) == IF ff THEN TRUE ELSE stop

runFrame ==
  << pc, unittest, inputVars, flagVars, nameVars, signalVars, loadVars,
     logVars, total_tests, runnerFailfast, position, testsRun, stream,
     outVars >>

\* result.addSuccess
AddSuccess ==
  /\ pc = "running" /\ inTest
  /\ inTest' = FALSE
  /\ UNCHANGED << runFrame, errors, failures, skipped, shouldStop >>

\* result.addFailure
AddFailure ==
  /\ pc = "running" /\ inTest
  /\ failures' = failures + 1
  /\ shouldStop' = StopOnFailure(runnerFailfast, shouldStop)
  /\ inTest' = FALSE
  /\ UNCHANGED << runFrame, errors, skipped >>

\* result.addError
AddError ==
  /\ pc = "running" /\ inTest
  /\ errors' = errors + 1
  /\ shouldStop' = StopOnFailure(runnerFailfast, shouldStop)
  /\ inTest' = FALSE
  /\ UNCHANGED << runFrame, failures, skipped >>

\* result.addSkip
AddSkip ==
  /\ pc = "running" /\ inTest
  /\ skipped' = skipped + 1
  /\ inTest' = FALSE
  /\ UNCHANGED << runFrame, errors, failures, shouldStop >>

\* A faulty variant of wasSuccessful: errors are not looked at.
wasSuccessfulIgnoringErrors(nErrors, nFailures) == nFailures = 0

\* ret.wasSuccessful()
wasSuccessful(nErrors, nFailures) == nFailures = 0 /\ nErrors = 0

\* The value RunCommand returns after the run (lines 257-259).
ExitStatus(nErrors, nFailures) ==
  IF wasSuccessful(nErrors, nFailures) THEN 0 ELSE 1

\* The suite is exhausted or was told to stop: runner.run returns.
FinishRun ==
  /\ pc = "running"
  /\ ~inTest
  /\ shouldStop \/ position = Len(LeavesOf(suite))
  /\ ret' = ExitStatus(errors, failures)
  /\ pc' = "returned"
  /\ UNCHANGED << unittest, inputVars, flagVars, nameVars, signalVars,
                  loadVars, logVars, resultVars, stdout, exception >>

(***************************************************************************)
(* An interrupt signal (ctrl-c).                                          *)
(***************************************************************************)
\* A faulty variant of StopRegistered: the handler stops no result.
StopRegisteredNever(at, stop) == stop

\* for result in _results.keys(): result.stop().  The runner registers its
\* result when runner.run starts, so there is one to stop only in the run.
StopRegistered(at, stop) == IF at = "running" THEN TRUE ELSE stop

Interrupt ==
  /\ pc \notin { "returned", "raised" }
  /\ interrupts < MaxInterrupts
  /\ interrupts' = interrupts + 1
  /\ IF handlerInstalled /\ ~handlerCalled
     THEN \* the installed handler: stop every registered result
          /\ handlerCalled' = TRUE
          /\ shouldStop' = StopRegistered(pc, shouldStop)
          /\ UNCHANGED << pc, exception >>
     ELSE \* the default handler
          /\ exception' = Raised("KeyboardInterrupt")
          /\ pc' = "raised"
          /\ UNCHANGED << handlerCalled, shouldStop >>
  /\ UNCHANGED << unittest, inputVars, flagVars, nameVars, handlerInstalled,
                  loadVars, logVars, total_tests, runnerFailfast, position,
                  inTest, testsRun, errors, failures, skipped, stream,
                  stdout, ret >>

Next ==
  \/ ImportGuard
  \/ CheckUnittest
  \/ ParseSubOpts
  \/ GetNames
  \/ ListCatalog
  \/ Resolve
  \/ InstallHandler
  \/ LoadTests
  \/ ListSuite
  \/ SetVerbosity
  \/ CountTests
  \/ StartRun
  \/ StartTest
  \/ AddSuccess
  \/ AddFailure
  \/ AddError
  \/ AddSkip
  \/ FinishRun
  \/ Interrupt

Spec == Init /\ [][Next]_vars

(***************************************************************************)
(* startTest on its own: a second specification that starts from the      *)
(* states a run of a larger test package is in before a test starts, and  *)
(* applies CustomTestResult.startTest to them.                             *)
(***************************************************************************)
\* 'pkg.test_cp', a test module outside gslib.tests, named in full on the
\* command line.
PkgModule ==
  << "p", "k", "g", ".", "t", "e", "s", "t", "_" >> \o cp

\* The test methods of its class TestCp, in the loader's order (by name):
\* test_a001 .. test_a006, test_streaming, test_t008 ..., every second one
\* with a long name.
ZeroPadded(i) == [j \in 1..(3 - Len(FormatInt(i))) |-> "0"] \o FormatInt(i)
MethodAt(i) ==
  IF i = 7 THEN test_streaming
  ELSE << "t", "e", "s", "t", "_" >> \o
       (IF i < 7 THEN << "a" >> ELSE << "t" >>) \o ZeroPadded(i) \o
       (IF i % 2 = 0 THEN SubSeq(test_long, 5, Len(test_long)) ELSE << >>)

\* The suite the loader builds for 'pkg.test_cp' when TestCp has n methods.
PkgSuite(n) ==
  TestSuite(<< TestSuite([i \in 1..n |->
                 Leaf(PkgModule \o << "." >> \o TestCp \o << "." >> \o MethodAt(i))]) >>)

\* The sizes of TestCp, and the values a counter of the result has.
SuiteSizes == { 7, 120 }
CounterChoices == { 0, 1, 2, 10 }

\* The counters the result can have had when the test before was started:
\* its outcome added at most one to one of them.
CountersBefore(nErrors, nFailures, nSkipped, outcomes) ==
  { c \in { << nErrors, nFailures, nSkipped >>,
            << nErrors - 1, nFailures, nSkipped >>,
            << nErrors, nFailures - 1, nSkipped >>,
            << nErrors, nFailures, nSkipped - 1 >> } :
      /\ c[1] >= 0 /\ c[2] >= 0 /\ c[3] >= 0
      /\ c[1] + c[2] + c[3] <= outcomes }

\* What the stream holds after `started` tests: nothing before the first
\* test or without dots, else what startTest wrote for the test before.
PreviousWrites(dots, node, started, total, nErrors, nFailures, nSkipped) ==
  IF ~dots \/ started = 0 THEN { << >> }
  ELSE { ProgressWrite(LeavesOf(node)[started], started, total, c[1], c[2], c[3]) :
           c \in CountersBefore(nErrors, nFailures, nSkipped, started - 1) }

\* `gsutil test pkg.test_cp` at a test boundary of its run: some tests have
\* run, with some outcomes, and the next one is about to start.
StartTestInit ==
  /\ pc = "running"
  /\ unittest = "module"
  /\ sub_opts = << >>
  /\ args = << PkgModule >>
  /\ RUN_INTEGRATION_TESTS = TRUE
  /\ failfast = FALSE
  /\ list_tests = FALSE
  /\ catalog = { cp, ls, mv }
  /\ test_names = sorted(<< mv, ls, cp >>)
  /\ commands_to_test = ResolveAll(args, test_names)
  /\ handlerInstalled = TRUE
  /\ handlerCalled = FALSE
  /\ interrupts = 0
  /\ loaderCalled = TRUE
  /\ suite \in { PkgSuite(n) : n \in SuiteSizes }
  /\ logLevel \in LogLevels
  /\ verbosity = VerbosityFor(logLevel)
  /\ loggingDisabled = (VerbosityFor(logLevel) = 2)
  /\ total_tests = countTestCases(suite)
  /\ runnerFailfast = failfast
  /\ position \in 0..(total_tests - 1)
  /\ inTest = FALSE
  /\ testsRun = position
  /\ errors \in CounterChoices
  /\ failures \in CounterChoices
  /\ skipped \in CounterChoices
  /\ errors + failures + skipped <= testsRun
  /\ shouldStop = FALSE
  /\ stream \in PreviousWrites(Dots(verbosity), suite, testsRun, total_tests,
                               errors, failures, skipped)
  /\ stdout = << >>
  /\ exception = NoException
  /\ ret = NoReturn

StartTestSpec == StartTestInit /\ [][StartTest]_vars

(***************************************************************************)
(* Properties.                                                             *)
(***************************************************************************)
\* The states in which the arguments have been resolved and the command has
\* not yet ended.
Resolved == pc \in { "installHandler", "load", "loaded", "count", "run", "running" }

\* The first dot-separated segment of s: its longest prefix without a dot.
FirstSegment(s) ==
  LET n == CHOOSE k \in 0..Len(s) :
             /\ \A j \in 1..k : s[j] # "."
             /\ k = Len(s) \/ s[k + 1] = "."
  IN  SubSeq(s, 1, n)

\* An argument the catalog knows: itself or by its first segment.
CatalogHit(a) == a \in catalog \/ FirstSegment(a) \in catalog

\* 'cp.TestCp.test_streaming' and what it resolves to.
StreamingArg ==
  << "c", "p", ".", "T", "e", "s", "t", "C", "p", ".", "t", "e", "s", "t",
     "_", "s", "t", "r", "e", "a", "m", "i", "n", "g" >>
StreamingId ==
  << "g", "s", "l", "i", "b", ".", "t", "e", "s", "t", "s", ".", "t", "e",
     "s", "t", "_", "c", "p", ".", "T", "e", "s", "t", "C", "p", ".", "t",
     "e", "s", "t", "_", "s", "t", "r", "e", "a", "m", "i", "n", "g" >>

\* C1: once the arguments are resolved, every argument that is in the
\* catalog, or whose first dot-separated segment is, has become
\* 'gslib.tests.test_' followed by the whole argument: the resolved name is
\* 17 characters longer, starts with the prefix and ends with the argument.
C1_CatalogHitResolution ==
  (Resolved /\ args # <<>>) =>
    /\ Len(commands_to_test) = Len(args)
    /\ \A i \in 1..Len(args) :
         CatalogHit(args[i]) =>
           LET r == commands_to_test[i]
           IN  /\ Len(r) = 17 + Len(args[i])
               /\ SubSeq(r, 1, 17) = TestPrefix
               /\ SubSeq(r, 18, Len(r)) = args[i]

\* C1 witness: 'cp.TestCp.test_streaming' was passed, cp is in the catalog
\* and the argument itself is not, and it resolved to
\* 'gslib.tests.test_cp.TestCp.test_streaming'; and 'mv.old' was passed,
\* which is in the catalog while its first segment mv is not, and it
\* resolved to 'gslib.tests.test_mv.old'.
C1_Witness ==
  /\ Resolved
  /\ cp \in catalog /\ mv_old \in catalog /\ mv \notin catalog
  /\ Len(commands_to_test) = 2
  /\ \E i, j \in 1..Len(args) :
       /\ args[i] = StreamingArg
       /\ args[i] \notin catalog
       /\ commands_to_test[i] = StreamingId
       /\ args[j] = mv_old
       /\ commands_to_test[j] = TestPrefix \o mv_old

\* C2: an argument that is not in the catalog, and whose first segment is
\* not, is resolved to itself; and resolution never fails: whenever the
\* command is about to resolve it can do so, and right after resolving no
\* exception is pending and every argument has its identifier.
C2_PassThrough ==
  /\ (pc = "list_catalog" /\ ~(list_tests /\ args = <<>>)) => ENABLED Resolve
  /\ pc = "installHandler" => exception = NoException
  /\ (Resolved /\ args # <<>>) =>
       /\ Len(commands_to_test) = Len(args)
       /\ \A i \in 1..Len(args) :
            ~CatalogHit(args[i]) => commands_to_test[i] = args[i]

\* C2 witness: with neither mv nor mv.old in the catalog, 'mv.old' was
\* passed and resolved to itself.
C2_Witness ==
  /\ Resolved
  /\ mv \notin catalog /\ mv_old \notin catalog
  /\ \E i \in 1..Len(args) :
       /\ args[i] = mv_old
       /\ i <= Len(commands_to_test)
       /\ commands_to_test[i] = args[i]

\* The names of a set of names in ascending order.
RECURSIVE Ascending(_)
Ascending(S) ==
  IF S = {} THEN <<>>
  ELSE LET least == CHOOSE x \in S : \A y \in S \ {x} : StrLess(x, y)
       IN  << least >> \o Ascending(S \ {least})

\* The tests the modules of a set define, all together.
RECURSIVE TestsDefinedAcross(_)
TestsDefinedAcross(S) ==
  IF S = {} THEN 0
  ELSE LET m == CHOOSE x \in S : TRUE
       IN  TestsDefinedIn(m) + TestsDefinedAcross(S \ {m})

\* C3: in a run of the whole catalog (no positional arguments, no -l),
\* resolution yields one identifier per catalog entry,
\* 'gslib.tests.test_<name>' in ascending order of the names, and once the
\* suite-building step is over there is a suite, and its test count (the
\* total the run then works with) is the number of tests the catalog's
\* modules define.
C3_FullCatalogRun ==
  (args = <<>> /\ ~list_tests) =>
    /\ Resolved =>
         /\ Len(commands_to_test) = Cardinality(catalog)
         /\ \A i \in 1..Len(commands_to_test) :
              commands_to_test[i] = TestPrefix \o Ascending(catalog)[i]
    /\ pc \in { "loaded", "count", "run", "running" } =>
         /\ suite # NoSuite
         /\ countTestCases(suite) = TestsDefinedAcross(catalog)
    /\ pc \in { "run", "running" } =>
         total_tests = TestsDefinedAcross(catalog)

\* C3 for the catalogs that have an entry.
C3_NonEmptyCatalog == catalog # {} => C3_FullCatalogRun

\* The lines of a text: the pieces that end in a line break.
RECURSIVE Lines(_)
Lines(text) ==
  IF \A i \in 1..Len(text) : text[i] # "\n" THEN <<>>
  ELSE LET n == CHOOSE k \in 1..Len(text) :
                  text[k] = "\n" /\ \A j \in 1..(k - 1) : text[j] # "\n"
       IN  << SubSeq(text, 1, n - 1) >> \o Lines(SubSeq(text, n + 1, Len(text)))

\* The names a listing shows: its lines after the header, without their
\* two-space indent. A body that is one blank indented line shows no name.
PrintedNames(text) ==
  LET body == Tail(Lines(text))
  IN  IF body = << << " ", " " >> >> THEN <<>>
      ELSE [i \in 1..Len(body) |-> SubSeq(body[i], 3, Len(body[i]))]

\* Every line after the header starts with the indent.
Indented(text) ==
  \A i \in 2..Len(Lines(text)) :
    Len(Lines(text)[i]) >= 2 /\ SubSeq(Lines(text)[i], 1, 2) = << " ", " " >>

\* 'Found <n> test names:'
HeaderLine(n) ==
  << "F", "o", "u", "n", "d", " " >> \o FormatInt(n) \o
  << " ", "t", "e", "s", "t", " ", "n", "a", "m", "e", "s", ":" >>

\* C4: with -l and no positional argument the command never gets to suite
\* building (no identifier is resolved, no interrupt handler installed, the
\* loader is not called, no suite exists, no test starts), and when it
\* returns it returns 0 having printed 'Found <N> test names:' with N the
\* size of the catalog, followed by the catalog's names, each once, in
\* ascending order.
C4_CatalogListing ==
  ("-l" \in Range(sub_opts) /\ args = <<>>) =>
    /\ pc \in { "import", "RunCommand", "sub_opts", "GetTestNames",
                "list_catalog", "returned", "raised" }
    /\ commands_to_test = <<>>
    /\ ~handlerInstalled
    /\ ~loaderCalled
    /\ suite = NoSuite
    /\ testsRun = 0 /\ ~inTest
    /\ pc = "returned" =>
         /\ ret = 0
         /\ Lines(stdout)[1] = HeaderLine(Cardinality(catalog))
         /\ Indented(stdout)
         /\ PrintedNames(stdout) = Ascending(catalog)

\* C4 witness: the catalog listing of a catalog of at least two names has
\* been printed and the command has returned.
C4_Witness ==
  /\ "-l" \in Range(sub_opts) /\ args = <<>>
  /\ pc = "returned"
  /\ Cardinality(catalog) >= 2
  /\ Len(PrintedNames(stdout)) = Cardinality(catalog)

\* How often x occurs in the sequence s.
RECURSIVE Occurrences(_, _)
Occurrences(x, s) ==
  IF s = <<>> THEN 0
  ELSE (IF Head(s) = x THEN 1 ELSE 0) + Occurrences(x, Tail(s))

\* s and t hold the same elements, each as often.
SameElements(s, t) ==
  /\ Len(s) = Len(t)
  /\ \A x \in Range(s) \cup Range(t) : Occurrences(x, s) = Occurrences(x, t)

\* No element of s is greater than a later one.
NonDescending(s) == \A i, j \in 1..Len(s) : i < j => ~StrLess(s[j], s[i])

\* Every element of s is less than every later one: sorted, none twice.
StrictlyAscending(s) == \A i, j \in 1..Len(s) : i < j => StrLess(s[i], s[j])

\* The names the leaves of a suite are listed under, in suite order.
DisplayNames(node) ==
  [i \in 1..Len(LeavesOf(node)) |-> ListedName(LeavesOf(node)[i])]

\* The step that prints the listing of a built suite.
SuiteListingStep == pc = "loaded" /\ list_tests /\ pc' = "returned"

C6_ListModeRunsNothing ==
  list_tests =>
    /\ pc \notin { "count", "run", "running" }
    /\ testsRun = 0 /\ errors = 0 /\ failures = 0 /\ skipped = 0
    /\ ~inTest /\ position = 0 /\ stream = <<>>
    /\ pc = "returned" => ret = 0

\* C6 witness: a suite with tests in it was listed and the command returned.
C6_Witness ==
  /\ list_tests /\ args # <<>>
  /\ pc = "returned"
  /\ Len(PrintedNames(stdout)) >= 2

\* C7: when a run is over, the command returns 0 if no failure and no
\* error was recorded and 1 otherwise, whatever the number of skipped tests.
C7_ExitStatus ==
  (pc = "returned" /\ ~list_tests) =>
    /\ ret \in { 0, 1 }
    /\ ret = 0 <=> (failures = 0 /\ errors = 0)

\* C7 witness: a run with a skipped test and a passed one returned 0.
C7_Witness ==
  /\ pc = "returned" /\ ~list_tests
  /\ skipped >= 1 /\ testsRun > skipped
  /\ failures = 0 /\ errors = 0
  /\ ret = 0

\* C8: the runner is built with failfast true exactly when -f was given;
\* and with -f, once a failure or an error is recorded it stays the only
\* one, no test is in progress after it (the test that recorded it was the
\* last to start), the run is told to stop, and the command returns 1.
C8_FailFast ==
  /\ pc \in { "run", "running" } => (runnerFailfast <=> "-f" \in Range(sub_opts))
  /\ (pc \in { "running", "returned" } /\ "-f" \in Range(sub_opts)
        /\ errors + failures > 0) =>
       /\ errors + failures = 1
       /\ ~inTest
       /\ pc = "running" => shouldStop
       /\ pc = "returned" => ret = 1

\* C8 witness: a suite of five tests ran with -f; the first test passed,
\* the second failed, no other test started, and the command returned 1.
C8_Witness ==
  /\ "-f" \in Range(sub_opts)
  /\ pc = "returned"
  /\ total_tests = 5
  /\ testsRun = 2 /\ position = 2
  /\ failures = 1 /\ errors = 0 /\ skipped = 0
  /\ ret = 1

\* The resolved identifiers that no loader can load, whatever the state of
\* the modules.
Unloadable == { i \in 1..Len(commands_to_test) :
                  ~loadTestsFromName(commands_to_test[i], catalog, {}).ok }

\* The command has failed with 'Invalid test argument name: <e>'.
ImportFailure == exception.type = "CommandException" /\ exception.text = InvalidText

\* C9: the command never gets past the load with an identifier that cannot
\* be loaded; and when the load fails the command is out with a
\* CommandException that carries the engine's error, no test has started,
\* nothing has been printed and nothing has been returned.
C9_ImportFailureIsFatal ==
  /\ (pc \in { "loaded", "count", "run", "running", "returned" }) => Unloadable = {}
  /\ ImportFailure =>
       /\ pc = "raised"
       /\ exception.etype \in { "ImportError", "AttributeError" }
       /\ exception.ename \in Range(commands_to_test)
       /\ testsRun = 0 /\ ~inTest /\ position = 0
       /\ errors = 0 /\ failures = 0 /\ skipped = 0
       /\ stdout = <<>>
       /\ ret = NoReturn

\* C9 witness: in list mode with arguments, an identifier could not be
\* loaded and the command failed.
C9_Witness ==
  /\ ImportFailure
  /\ list_tests
  /\ Unloadable # {}

\* The command has failed with the unittest2 message.
DependencyMissing ==
  exception.type = "CommandException" /\ exception.text = DependencyText

\* C10: when the unittest names are None the command gets no further than
\* its first statement: it fails there with the unittest2 CommandException
\* (or is interrupted), and no flag has taken effect, the catalog has not
\* been fetched, no argument is resolved, and the unit-only flag, the
\* logging threshold and the interrupt handler are as they were.
C10_DependencyCheckedFirst ==
  unittest = "None" =>
    /\ pc \in { "RunCommand", "raised" }
    /\ pc = "raised" => (DependencyMissing \/ exception.type = "KeyboardInterrupt")
    /\ ~failfast /\ ~list_tests
    /\ catalog = {} /\ test_names = <<>> /\ commands_to_test = <<>>
    /\ RUN_INTEGRATION_TESTS
    /\ ~loggingDisabled /\ logLevel = NoLevel
    /\ ~handlerInstalled
    /\ stdout = <<>> /\ ret = NoReturn

\* C10 witness: the command was given -u and an argument and failed with
\* the unittest2 message.
C10_Witness ==
  /\ unittest = "None"
  /\ DependencyMissing
  /\ "-u" \in Range(sub_opts)
  /\ args # <<>>

(***************************************************************************)
(* C11.  Graceful interrupt.                                               *)
(***************************************************************************)
\* The counters of the result.
Counters == << testsRun, errors, failures, skipped >>

\* The first interrupt signal arrives while runner.run is going on.
FirstInterruptInRun ==
  pc = "running" /\ interrupts = 0 /\ interrupts' = interrupts + 1

\* C11: a single interrupt that arrives in the run, between two tests or
\* during one, raises nothing and changes no counter, it only asks the run
\* to stop; from then on no further test is started, the test that is going
\* on can still record its outcome, at the next test boundary the run can
\* end, and when it ends the command returns the exit status derived from
\* the counters as they are, without changing them.
C11_GracefulInterrupt ==
  [][ /\ FirstInterruptInRun =>
           /\ shouldStop'
           /\ pc' = "running"
           /\ inTest' = inTest
           /\ position' = position
           /\ Counters' = Counters
           /\ exception' = NoException
      /\ (pc = "running" /\ shouldStop) =>
           /\ testsRun' = testsRun
           /\ position' = position
           /\ pc' = "running" => shouldStop'
           /\ inTest => ENABLED AddSuccess
           /\ ~inTest => ENABLED FinishRun
      /\ (pc = "running" /\ pc' = "returned") =>
           /\ Counters' = Counters
           /\ ret' = ExitStatus(errors, failures)
    ]_vars

\* The run of a suite without fail-fast was interrupted once after an error
\* or a failure and before the last test: it ended early and returned 1.
C11_Witness ==
  /\ pc = "returned"
  /\ ~runnerFailfast
  /\ interrupts = 1
  /\ handlerCalled
  /\ shouldStop
  /\ testsRun >= 1
  /\ testsRun < total_tests
  /\ errors + failures >= 1
  /\ ret = 1
  /\ exception = NoException

(***************************************************************************)
(* C12.  The width of the progress line.                                   *)
(***************************************************************************)
\* startTest has just written the progress line of the test going on.
LineWritten == pc = "running" /\ inTest /\ Dots(verbosity)

\* A write that starts with a carriage return and ends with ' - '.
Framed(w) ==
  /\ Len(w) >= 4
  /\ w[1] = "\r"
  /\ SubSeq(w, Len(w) - 2, Len(w)) = << " ", "-", " " >>

\* The text of a write between the carriage return and the ' - '.
StatusText(w) == SubSeq(w, 2, Len(w) - 3)

\* s is made of spaces only.
Blank(s) == \A i \in 1..Len(s) : s[i] = " "

\* The last two dot-separated components of an identifier: the suffix that
\* follows a dot and holds one dot, or the identifier if it has no two dots.
DotCount(s) == Cardinality({ i \in 1..Len(s) : s[i] = "." })
LastTwoComponents(id) ==
  IF DotCount(id) <= 1 THEN id
  ELSE CHOOSE c \in { SubSeq(id, i, Len(id)) : i \in 2..Len(id) } :
         DotCount(c) = 1 /\ id[Len(id) - Len(c)] = "."

\* The status of a run in full: 'k/total finished - E[e] F[f] s[s] - id'.
StatusMessage(id, k, total, nErrors, nFailures, nSkipped) ==
  FormatInt(k) \o << "/" >> \o FormatInt(total) \o
  << " ", "f", "i", "n", "i", "s", "h", "e", "d", " ", "-", " ", "E", "[" >> \o FormatInt(nErrors) \o
  << "]", " ", "F", "[" >> \o FormatInt(nFailures) \o
  << "]", " ", "s", "[" >> \o FormatInt(nSkipped) \o
  << "]", " ", "-", " " >> \o LastTwoComponents(id)

\* The full status of the test going on.
CurrentMessage ==
  StatusMessage(LeavesOf(suite)[position], testsRun, total_tests, errors,
                failures, skipped)

\* C12 as claimed: in dot-style mode, for every test start, the status text
\* between the leading carriage return and the trailing ' - ' is exactly 73
\* characters wide.
C12_StatusTextWidth73 ==
  LineWritten => Framed(stream) /\ Len(StatusText(stream)) = LineWidth

\* What the code does instead: in dot-style mode, for every test start, what is
\* written is a carriage return, a status text and ' - ', and the carriage
\* return and the status text together are exactly 73 characters: the
\* status text is 72 wide, cut when the full status is longer than 72 and
\* padded with spaces on the right when it is shorter.
C12_LineWidthCountsCR ==
  LineWritten =>
    /\ Framed(stream)
    /\ 1 + Len(StatusText(stream)) = LineWidth
    /\ Len(stream) = LineWidth + 3
    /\ Len(CurrentMessage) < LineWidth - 1 =>
         Blank(SubSeq(StatusText(stream), Len(CurrentMessage) + 1, LineWidth - 1))
    /\ Len(CurrentMessage) >= LineWidth - 1 =>
         StatusText(stream)[LineWidth - 1] = CurrentMessage[LineWidth - 1]

(***************************************************************************)
(* C13.  The content of the progress line.                                 *)
(***************************************************************************)
\* part occurs in text.
Shows(text, part) ==
  \E i \in 1..(Len(text) - Len(part) + 1) :
    SubSeq(text, i, i + Len(part) - 1) = part

\* 'pkg.test_cp.TestCp.test_streaming'
PkgStreamingId ==
  PkgModule \o << "." >> \o TestCp \o << "." >> \o test_streaming

\* The seventh test of 120 has started, it is pkg.test_cp.TestCp.test_streaming,
\* and two errors and one failure are recorded.
SeventhOf120 ==
  /\ LineWritten
  /\ testsRun = 7
  /\ total_tests = 120
  /\ errors = 2
  /\ failures = 1
  /\ LeavesOf(suite)[position] = PkgStreamingId

\* C13: in dot-style mode, when the k-th test of the run starts, the status
\* text is the full status 'k/total_tests finished - E[e] F[f] s[s] - id',
\* with k counting the test just started, total_tests the value the result
\* class was made with, e, f and s the errors, failures and skips recorded
\* so far and id the last two components of the test's identifier, as far
\* as the width allows: all of it, then spaces, when it fits, and its
\* beginning otherwise.  For the seventh of 120 tests,
\* pkg.test_cp.TestCp.test_streaming, with two errors and a failure, it
\* shows '7/120', 'E[2]', 'F[1]' and 'TestCp.test_streaming'.
C13_ProgressLineContent ==
  LineWritten =>
    LET text == StatusText(stream)
        shown == IF Len(CurrentMessage) <= Len(text)
                 THEN Len(CurrentMessage) ELSE Len(text)
    IN  /\ testsRun = position
        /\ total_tests = countTestCases(suite)
        /\ SubSeq(text, 1, shown) = SubSeq(CurrentMessage, 1, shown)
        /\ Blank(SubSeq(text, shown + 1, Len(text)))
        /\ SeventhOf120 =>
             /\ Shows(text, << "7", "/", "1", "2", "0" >>)
             /\ Shows(text, << "E", "[", "2", "]" >>)
             /\ Shows(text, << "F", "[", "1", "]" >>)
             /\ Shows(text, TestCp \o << "." >> \o test_streaming)

\* The scenario of the claim, with the status in full on the line.
C13_Witness ==
  /\ SeventhOf120
  /\ skipped = 0
  /\ Len(CurrentMessage) < Len(StatusText(stream))
  /\ Shows(StatusText(stream), CurrentMessage)

(***************************************************************************)
(* C14.  List mode gives the same output for the same inputs.              *)
(***************************************************************************)
\* The suite the loader builds for the command's arguments and catalog when
\* the modules it loads import.
SuiteOfInputs ==
  loadTestsFromNames(ResolveAll(args, Ascending(catalog)), catalog, {}).suite

\* The listing the flags, the arguments, the catalog and the test modules
\* stand for, with the names taken in catalog order and in suite order.
ListingOfInputs ==
  IF args = << >> THEN ListingText(Ascending(catalog))
  ELSE ListingText(DisplayNames(SuiteOfInputs))

\* A list-mode run has ended normally.
Listed == pc = "returned" /\ list_tests

\* C14: what a list-mode run prints, and the status it returns, are fixed by
\* the flags, the arguments, the catalog and the test modules alone: every
\* such run prints the same bytes and returns 0, in whatever order the
\* directory yields the test files and in whatever order the stack of the
\* flattening loop visits the suites, so a second run with the same inputs
\* repeats the first byte for byte.
C14_ListModeIdempotent ==
  Listed => ret = 0 /\ stdout = ListingOfInputs

\* A suite listing whose flattening loop met the leaves in another order
\* than the suite has them.
C14_Witness ==
  /\ Listed
  /\ args # << >>
  /\ Len(test_names) >= 3
  /\ test_names # DisplayNames(SuiteOfInputs)
  /\ stdout = ListingOfInputs

(***************************************************************************)
(* C15.  Verbosity and the suppression of logging.                         *)
(***************************************************************************)
\* A test of the run is going on: startTest has been called for it.
TestGoingOn == pc = "running" /\ inTest

\* startTest has written a status line in this run.
StatusLineRendered == stream # << >>

\* C15 as claimed: in a run, with a log threshold at or below INFO logging
\* is not suppressed and no status line is rendered (the engine's markers
\* only); with a higher threshold the status line is rendered and
\* error-level logging is suppressed; so the status line is never rendered
\* while error-level logging is enabled.
C15_StatusLineOnlyWhenLoggingSuppressed ==
  TestGoingOn =>
    /\ logLevel <= INFO => ~loggingDisabled /\ ~StatusLineRendered
    /\ logLevel > INFO => loggingDisabled /\ StatusLineRendered
    /\ StatusLineRendered => loggingDisabled

\* What the code does instead: with a log threshold at or below INFO the
\* verbosity is 1, logging is not suppressed and the status line is
\* rendered; with a higher threshold the verbosity is 2, error-level
\* logging is suppressed and no status line is rendered.
C15_StatusLineOnlyWhenLoggingEnabled ==
  TestGoingOn =>
    /\ logLevel <= INFO =>
         verbosity = 1 /\ ~loggingDisabled /\ StatusLineRendered /\ Framed(stream)
    /\ logLevel > INFO =>
         verbosity = 2 /\ loggingDisabled /\ ~StatusLineRendered

(***************************************************************************)
(* C16.  What the command changes outside itself.                          *)
(***************************************************************************)
\* The run configuration is set where the flags are read and where the
\* verbosity is chosen, and nowhere else.
ConfigurationBuiltOnce ==
  /\ pc # "sub_opts" => failfast' = failfast /\ list_tests' = list_tests
  /\ pc # "loaded" => verbosity' = verbosity

\* C16 as claimed: the run configuration is built once and never changed
\* afterwards, and no step of the command changes state of the process
\* that outlives it: the test package's module variable
\* RUN_INTEGRATION_TESTS keeps its value, also with -u, and so does the
\* logging module's disable level.
C16_NoProcessWideMutation ==
  [][ /\ ConfigurationBuiltOnce
      /\ RUN_INTEGRATION_TESTS' = RUN_INTEGRATION_TESTS
      /\ loggingDisabled' = loggingDisabled ]_vars

\* What the code does instead: the configuration is built once, but -u is
\* recorded by assigning False to tests.util.RUN_INTEGRATION_TESTS, and a
\* log threshold above INFO makes the command call logging.disable, which
\* is never undone.
C16_MutatesModuleState ==
  [][ /\ ConfigurationBuiltOnce
      /\ RUN_INTEGRATION_TESTS' # RUN_INTEGRATION_TESTS <=>
           (pc = "sub_opts" /\ pc' = "GetTestNames" /\ FlagSet(sub_opts, "-u"))
      /\ loggingDisabled' # loggingDisabled <=>
           (pc = "loaded" /\ pc' = "count" /\ logLevel' > INFO)
      /\ loggingDisabled => loggingDisabled' ]_vars

(***************************************************************************)
(* C17.  The prefix removed from the names of a suite listing.             *)
(***************************************************************************)
\* id with the prefix 'gslib.tests.test_' removed once from its front, if it
\* starts with it.
WithoutPrefix(id) ==
  IF Len(id) >= Len(TestPrefix) /\ SubSeq(id, 1, Len(TestPrefix)) = TestPrefix
  THEN SubSeq(id, Len(TestPrefix) + 1, Len(id))
  ELSE id

\* The identifiers of the leaves of a suite without the prefix, in suite
\* order.
NamesWithoutPrefix(node) ==
  [i \in 1..Len(LeavesOf(node)) |-> WithoutPrefix(LeavesOf(node)[i])]

\* What is left of id after the prefix starts with a character that does
\* not occur in the prefix.
PrefixEndsCleanly(id) ==
  WithoutPrefix(id) # << >> /\ WithoutPrefix(id)[1] \notin Range(TestPrefix)

\* C17 as claimed: the names a suite listing prints are the identifiers of
\* the suite's leaves with 'gslib.tests.test_' removed once from the front
\* and nothing more, whatever the module name starts with.
C17_PrefixRemovedOnce ==
  [][SuiteListingStep =>
       SameElements(PrintedNames(stdout'), NamesWithoutPrefix(suite))]_vars

\* What the code does instead: the names printed are the identifiers with
\* every leading character that occurs in 'gslib.tests.test_' removed; that
\* is the prefix and nothing more only for the leaves whose module name
\* starts with a character outside the prefix.
C17_LeadingCharactersRemoved ==
  [][SuiteListingStep =>
       /\ SameElements(PrintedNames(stdout'), DisplayNames(suite))
       /\ \A i \in 1..Len(LeavesOf(suite)) :
            PrefixEndsCleanly(LeavesOf(suite)[i]) =>
              DisplayNames(suite)[i] = NamesWithoutPrefix(suite)[i]]_vars

(***************************************************************************)
(* C18.  The outcome of a test does not stop a run without fail-fast.      *)
(***************************************************************************)
\* Every counter of the result is at least what it was.
CountersGrow ==
  /\ testsRun' >= testsRun
  /\ errors' >= errors
  /\ failures' >= failures
  /\ skipped' >= skipped

\* A step of a run without fail-fast that no interrupt has reached.
UndisturbedRunStep ==
  pc = "running" /\ ~runnerFailfast /\ interrupts' = 0

\* C18: in a run without fail-fast and without an interrupt no outcome
\* (success, failure, error, skip) asks the run to stop; a test starts only
\* when none is going on, and it is the leaf after the one started before,
\* so the leaves start one at a time, each once, in suite order; the run
\* ends only after the last leaf, with testsRun = total_tests; and no step
\* of any run makes a counter smaller.
C18_OutcomesContained ==
  [][ /\ CountersGrow
      /\ UndisturbedRunStep =>
           /\ ~shouldStop'
           /\ testsRun = position
           /\ testsRun' # testsRun =>
                /\ ~inTest /\ inTest'
                /\ testsRun' = testsRun + 1
                /\ position' = position + 1
                /\ position' <= Len(LeavesOf(suite))
           /\ position' # position => testsRun' # testsRun
           /\ pc' = "returned" =>
                /\ ~inTest
                /\ position = Len(LeavesOf(suite))
                /\ testsRun' = total_tests
    ]_vars

\* A run of the five tests of cp, ls and mv without -f and without an
\* interrupt is over: all five have run, with an error, a failure and a
\* skip among them.
C18_Witness ==
  /\ pc = "returned"
  /\ ~runnerFailfast
  /\ interrupts = 0
  /\ total_tests = 5
  /\ testsRun = total_tests
  /\ errors >= 1
  /\ failures >= 1
  /\ skipped >= 1
  /\ ret = 1

(***************************************************************************)
(* C19.  total_tests is fixed.                                             *)
(***************************************************************************)
\* The first position of character c in w, or Len(w) + 1.
Find(w, c) ==
  IF \E i \in 1..Len(w) : w[i] = c
  THEN CHOOSE i \in 1..Len(w) : w[i] = c /\ \A j \in 1..(i - 1) : w[j] # c
  ELSE Len(w) + 1

\* The total a status line shows: the text after the first '/' up to the
\* next space.
TotalShown(w) ==
  LET rest == SubSeq(w, Find(w, "/") + 1, Len(w))
  IN  SubSeq(rest, 1, Find(rest, " ") - 1)

\* C19: total_tests is assigned in one step only, after the suite is built
\* and before the first test starts, and gets the number of leaves of the
\* suite; from then to the end of the run it is that number, whatever the
\* outcomes of the tests, fail-fast and interrupts; and every status line
\* startTest writes shows it.
C19_TotalTestsFixed ==
  [][ /\ total_tests' # total_tests =>
           /\ pc = "count" /\ pc' = "run"
           /\ suite # NoSuite
           /\ testsRun = 0 /\ ~inTest /\ stream = << >>
      /\ pc \in { "count", "run", "running" } /\ pc' \in { "run", "running", "returned" } =>
           /\ suite' = suite
           /\ total_tests' = Len(LeavesOf(suite))
      /\ pc \in { "run", "running" } => total_tests' = total_tests
      /\ (pc = "running" /\ testsRun' # testsRun /\ Dots(verbosity)) =>
           TotalShown(stream') = FormatInt(Len(LeavesOf(suite)))
    ]_vars

\* The fourth of five tests is going on after a failure and an interrupt:
\* its status line shows the total 5.
C19_Witness ==
  /\ LineWritten
  /\ total_tests = 5
  /\ testsRun = 4
  /\ failures >= 1
  /\ shouldStop
  /\ interrupts = 1
  /\ TotalShown(stream) = FormatInt(total_tests)

(***************************************************************************)
(* C20.  The outcomes of the command.                                      *)
(***************************************************************************)
\* The command is over: it has returned or an exception has left it.
Ended == pc \in { "returned", "raised" }

\* A list-mode exit with status 0, and a completed run with status 0 or 1.
ListExit == pc = "returned" /\ list_tests /\ ret = 0
RunExit == pc = "returned" /\ ~list_tests /\ ret \in { 0, 1 }

\* How many of the four outcomes the state shows.
OutcomeCount ==
  Cardinality({ i \in 1..4 :
    \/ i = 1 /\ pc = "raised" /\ DependencyMissing
    \/ i = 2 /\ pc = "raised" /\ ImportFailure
    \/ i = 3 /\ ListExit
    \/ i = 4 /\ RunExit })

\* The command itself was entered and no interrupt signal reached it.
RanUndisturbed == unittest # "unbound" /\ interrupts = 0

\* The next statement flattens the suite, counts it or runs it.
SuiteNeeded ==
  (pc = "loaded" /\ list_tests) \/ pc \in { "count", "run", "running" }

\* C20 as claimed: for every catalog (the empty one too), every flag
\* combination and every argument list, a command that is left alone ends
\* in exactly one of the DependencyMissing error, the ImportFailure error,
\* a list-mode exit with status 0 and a completed run with status 0 or 1;
\* and past the load there is always a suite to flatten or to run, also
\* when there was no identifier to load.
C20_ClosedOutcomes ==
  /\ (Ended /\ RanUndisturbed) => OutcomeCount = 1
  /\ SuiteNeeded => suite # NoSuite

\* What holds: the same, for every command line and catalog that leaves at
\* least one identifier to load.
C20_ClosedOutcomesWithIdentifiers ==
  (args # << >> \/ catalog # {} \/ list_tests) =>
    /\ (Ended /\ RanUndisturbed) => OutcomeCount = 1
    /\ SuiteNeeded => suite # NoSuite
====
